---------------------------- MODULE Spec2Model ----------------------------
(***************************************************************************)
(* Model of api.py: a Flask relay with two POST endpoints,                 *)
(*   /process-audio  (process_audio_file)       and                        *)
(*   /generate       (generate_content_text),                              *)
(* and the helper upload_to_gemini_file_api.  Every request is one run of  *)
(* its handler; the only state handlers share is the module-level api_key  *)
(* (read only) and the temporary directory of the filesystem.              *)
(***************************************************************************)
EXTENDS Integers, Sequences, FiniteSets, TLC

VARIABLES
    api_key,      \* the module-level credential read at import (line 27)
    fs,           \* the temporary directory: path -> whose bytes it holds
    pc,           \* per request: the handler's position
    req,          \* per request: what the client sent
    mime_type,    \* per request: local of process_audio_file (line 167)
    info,         \* per request: uploaded_file_info (line 158 / 180)
    stagingResp,  \* per request: the answer the file-staging call received
    genResp,      \* per request: the answer the generation call received
    resp,         \* per request: the response the handler chose / the fault
    uploadCalls,  \* per request: POSTs sent to FILE_UPLOAD_URL
    genCalls,     \* per request: POSTs sent to GENERATE_CONTENT_URL
    staged,       \* per request: audio_file.save wrote the temporary file
    removeFailed, \* per request: os.remove raised in the finally block
    log,          \* per request: diagnostic detail printed server-side
    norm,         \* inputs and results of the upload-response normalisation
    sentBytes     \* per request: whose bytes the staging call read from temp_path

vars == <<api_key, fs, pc, req, mime_type, info, stagingResp, genResp, resp,
          uploadCalls, genCalls, staged, removeFailed, log, norm, sentBytes>>

-----------------------------------------------------------------------------
(* Bounds and small value sets *)

\* longest "parts" list of a candidate the upstream is taken to return
MaxParts == 2

\* request slots: each serves one client request
Reqs == {"r1", "r2"}

\* a key missing from a JSON object / a Python None (JSON null)
ABSENT == "<absent>"
NONE == "<None>"

\* values os.environ.get("GEMINI_API_KEY") can give: unset, empty, a key
ApiKeys == {NONE, "", "k3y"}

\* file names a client may put in the multipart part
Filenames == {"", "a.wav", "b.txt"}

\* HTTP statuses the staging / generation endpoints are taken to answer
UploadStatuses == {200, 403}
GenStatuses == {200, 304, 429, 503}

\* characters of generated text
WS == {" ", "\n"}
PartTexts == {<< >>, <<"a">>, <<"b">>, <<" ">>}

-----------------------------------------------------------------------------
(* Library behaviour the handlers rely on *)

\* raise_for_status as if it raised for client errors only
raise_for_status_client_only(status) == status >= 400 /\ status < 500

\* requests.Response.raise_for_status: HTTPError for 4xx and 5xx only
raise_for_status(status) == status >= 400 /\ status < 600

\* mimetypes.guess_type on the file extension
guess_type(filename) ==
    CASE filename = "a.wav" -> "audio/x-wav"
      [] filename = "b.txt" -> "text/plain"
      [] OTHER -> NONE

\* str.startswith('audio/') / str.startswith('files/') on the modelled values
startswith_audio(m) == m \in {"audio/x-wav", "audio/ogg"}
startswith_files(n) == n \in {"files/a"}

\* os.path.join(tempfile.gettempdir(), filename)
temp_path_of(filename) == <<"tmp", filename>>

Paths == {temp_path_of(f) : f \in Filenames \ {""}}

\* str.join("\n", texts)
RECURSIVE join_nl(_)
join_nl(texts) ==
    IF Len(texts) = 0 THEN << >>
    ELSE IF Len(texts) = 1 THEN texts[1]
    ELSE texts[1] \o <<"\n">> \o join_nl(Tail(texts))

\* str.strip()
RECURSIVE lstrip(_)
lstrip(s) == IF Len(s) > 0 /\ s[1] \in WS THEN lstrip(Tail(s)) ELSE s

RECURSIVE rstrip(_)
rstrip(s) ==
    IF Len(s) > 0 /\ s[Len(s)] \in WS THEN rstrip(SubSeq(s, 1, Len(s) - 1)) ELSE s

RECURSIVE strip_blanks(_)
\* strip as if written .strip(' '): blanks go, line breaks stay
strip_blanks(s) ==
    IF Len(s) > 0 /\ s[1] = " " THEN strip_blanks(Tail(s))
    ELSE IF Len(s) > 0 /\ s[Len(s)] = " " THEN strip_blanks(SubSeq(s, 1, Len(s) - 1))
    ELSE s

strip(s) == rstrip(lstrip(s))

-----------------------------------------------------------------------------
(* What the client sends *)

\* a multipart POST to /process-audio: request.files may hold 'audio_file'
AudioRequests ==
    { [endpoint |-> "/process-audio", hasFile |-> h, filename |-> f,
       isJson |-> FALSE, parses |-> FALSE, isObject |-> FALSE, prompt |-> ABSENT] :
      h \in BOOLEAN, f \in Filenames }

\* a POST to /generate: Content-Type JSON or not, a body that parses or not,
\* a JSON object or another JSON value, and the value under 'prompt'
\* (missing, "", a non-empty string, a non-zero number)
Prompts == {ABSENT, "", "Say hello", "<number>"}

TextRequests ==
    { [endpoint |-> "/generate", hasFile |-> FALSE, filename |-> "",
       isJson |-> j, parses |-> p, isObject |-> o, prompt |-> q] :
      j \in BOOLEAN, p \in BOOLEAN, o \in BOOLEAN, q \in Prompts }

Requests == AudioRequests \cup TextRequests

NoRequest ==
    [endpoint |-> "none", hasFile |-> FALSE, filename |-> "",
     isJson |-> FALSE, parses |-> FALSE, isObject |-> FALSE, prompt |-> ABSENT]

-----------------------------------------------------------------------------
(* What the file-staging endpoint answers *)

\* the reference fields of a staging answer, each present or missing
RefFields ==
    [name : {ABSENT, "files/a", "a"},
     uri : {ABSENT, "https://u/a"},
     mimeType : {ABSENT, "audio/ogg", "audio/x-wav"}]

NoFields == [name |-> ABSENT, uri |-> ABSENT, mimeType |-> ABSENT]

\* the JSON body: the fields nested under 'file', or flattened at the root
Nested(f) == [file |-> <<f>>, root |-> NoFields]
Flat(f) == [file |-> << >>, root |-> f]

StagingBodies == {Nested(f) : f \in RefFields} \cup {Flat(f) : f \in RefFields}

\* the outcome of requests.post(FILE_UPLOAD_URL, ...): a timeout, a
\* connection failure, or an HTTP answer whose body is JSON or not
StagingOutcomes ==
    { [kind |-> k, status |-> 0, isJson |-> FALSE, data |-> Flat(NoFields)] :
      k \in {"timeout", "connerr"} }
    \cup
    { [kind |-> "http", status |-> s, isJson |-> FALSE, data |-> Flat(NoFields)] :
      s \in UploadStatuses }
    \cup
    { [kind |-> "http", status |-> s, isJson |-> TRUE, data |-> d] :
      s \in UploadStatuses, d \in StagingBodies }

NoStaging == [kind |-> "none", status |-> 0, isJson |-> FALSE, data |-> Flat(NoFields)]

\* uploaded_file_info = None
NoInfo == [name |-> NONE, uri |-> NONE, mimeType |-> NONE]

-----------------------------------------------------------------------------
(* What the generation endpoint answers *)

\* one element of parts[]: its 'text' key present with a value, or missing
Parts ==
    { [hasText |-> TRUE, text |-> t] : t \in PartTexts }
    \cup { [hasText |-> FALSE, text |-> << >>] }

PartLists == UNION { [1..n -> Parts] : n \in 0..MaxParts }

FinishReasons == {ABSENT, "STOP", "MAX_TOKENS"}

\* one element of candidates[]: 'content' present (holding parts[]) or missing
Candidates ==
    { [hasContent |-> TRUE, parts |-> ps, finishReason |-> fr] :
      ps \in PartLists, fr \in FinishReasons }
    \cup
    { [hasContent |-> FALSE, parts |-> << >>, finishReason |-> fr] :
      fr \in FinishReasons }

\* the JSON object: 'candidates' missing, or a list of which the first is used
GenBodies ==
    { [hasCandidates |-> FALSE, candidates |-> << >>] }
    \cup { [hasCandidates |-> TRUE, candidates |-> << >>] }
    \cup { [hasCandidates |-> TRUE, candidates |-> <<c>>] : c \in Candidates }

NoBody == [hasCandidates |-> FALSE, candidates |-> << >>]

\* the outcome of requests.post(GENERATE_CONTENT_URL, ...): a timeout, a
\* connection failure, or an HTTP answer whose body is not JSON, is a JSON
\* value other than an object, or is a JSON object
GenOutcomes ==
    { [kind |-> k, status |-> 0, isJson |-> FALSE, isDict |-> FALSE, data |-> NoBody] :
      k \in {"timeout", "connerr"} }
    \cup
    { [kind |-> "http", status |-> s, isJson |-> j, isDict |-> FALSE, data |-> NoBody] :
      s \in GenStatuses, j \in BOOLEAN }
    \cup
    { [kind |-> "http", status |-> s, isJson |-> TRUE, isDict |-> TRUE, data |-> d] :
      s \in GenStatuses, d \in GenBodies }

NoGen == [kind |-> "none", status |-> 0, isJson |-> FALSE, isDict |-> FALSE, data |-> NoBody]

-----------------------------------------------------------------------------
(* What the client receives *)

\* diagnostic detail a string may embed
ExcText == "text of the caught exception"
Credential == "upstream URL with ?key="
UpstreamBody == "raw upstream error body"
FinishReason == "upstream finish reason"

NoResp ==
    [kind |-> "none", status |-> 0, field |-> "", msg |-> "", text |-> << >>,
     detail |-> {}]

\* return jsonify({"error": msg}), status
JsonError(status, msg, detail) ==
    [kind |-> "json", status |-> status, field |-> "error", msg |-> msg,
     text |-> << >>, detail |-> detail]

\* return jsonify({field: text})   (status 200)
JsonSuccess(field, text) ==
    [kind |-> "json", status |-> 200, field |-> field, msg |-> "", text |-> text,
     detail |-> {}]

\* an exception left the view function: Flask answers 500 itself
Fault ==
    [kind |-> "fault", status |-> 500, field |-> "", msg |-> "", text |-> << >>,
     detail |-> {}]

\* werkzeug's BadRequest raised by request.get_json(): Flask answers 400 itself
BadRequest ==
    [kind |-> "fault", status |-> 400, field |-> "", msg |-> "", text |-> << >>,
     detail |-> {}]

-----------------------------------------------------------------------------
(* upload_to_gemini_file_api (lines 47-118) *)

\* what str(e) of the exception the helper lets out embeds.  A requests
\* HTTPError reads "403 Client Error: ... for url: <FILE_UPLOAD_URL>" and a
\* connection failure "Max retries exceeded with url: /v1beta/files?key=...";
\* both carry the key, and line 114 copies str(e) into the ConnectionError.
exception_text(raised) ==
    CASE raised \in {"HTTPError", "ConnectionError"} -> {ExcText, Credential}
      [] raised = "" -> {}
      [] OTHER -> {ExcText}

\* normalize_upload as if it took any root-level name for a reference
normalize_upload_any_name(upload_data, mime) ==
    IF Len(upload_data.file) = 1
       /\ upload_data.file[1].name # ABSENT
       /\ upload_data.file[1].uri # ABSENT
    THEN [raised |-> "", info |-> upload_data.file[1]]
    ELSE IF upload_data.root.name # ABSENT
    THEN [raised |-> "",
          info |-> [name |-> upload_data.root.name,
                    uri |-> IF upload_data.root.uri = ABSENT
                            THEN NONE ELSE upload_data.root.uri,
                    mimeType |-> IF upload_data.root.mimeType = ABSENT
                                 THEN mime ELSE upload_data.root.mimeType]]
    ELSE [raised |-> "ValueError", info |-> NoInfo]

\* lines 88-104: the two recognized shapes of a parsed staging answer.
\* Returns the reference, or raises ValueError.
normalize_upload(upload_data, mime) ==
    IF Len(upload_data.file) = 1
       /\ upload_data.file[1].name # ABSENT
       /\ upload_data.file[1].uri # ABSENT
    THEN \* line 91: return file_info as it came
         [raised |-> "", info |-> upload_data.file[1]]
    ELSE IF upload_data.root.name # ABSENT /\ startswith_files(upload_data.root.name)
    THEN \* lines 96-100: .get('uri') is None when missing, mimeType defaults
         [raised |-> "",
          info |-> [name |-> upload_data.root.name,
                    uri |-> IF upload_data.root.uri = ABSENT
                            THEN NONE ELSE upload_data.root.uri,
                    mimeType |-> IF upload_data.root.mimeType = ABSENT
                                 THEN mime ELSE upload_data.root.mimeType]]
    ELSE [raised |-> "ValueError", info |-> NoInfo]

\* the whole helper on the outcome o of its POST.  exists: open(file_path)
\* finds the file.  Every requests exception (timeout, connection failure,
\* HTTPError of raise_for_status) is re-raised as ConnectionError (line 114);
\* anything else is re-raised as it is (line 118).
upload_to_gemini_file_api(exists, o, mime) ==
    IF ~exists
    THEN [raised |-> "FileNotFoundError", info |-> NoInfo, called |-> FALSE,
          log |-> {ExcText}]
    ELSE IF o.kind = "timeout"
    THEN [raised |-> "Timeout", info |-> NoInfo, called |-> TRUE,
          log |-> {ExcText}]
    ELSE IF o.kind = "connerr"
    THEN [raised |-> "ConnectionError", info |-> NoInfo, called |-> TRUE,
          log |-> {ExcText, Credential}]
    ELSE IF raise_for_status(o.status)
    THEN [raised |-> "HTTPError", info |-> NoInfo, called |-> TRUE,
          log |-> {ExcText, Credential, UpstreamBody}]
    ELSE IF ~o.isJson
    THEN [raised |-> "JSONDecodeError", info |-> NoInfo, called |-> TRUE,
          log |-> {ExcText}]
    ELSE LET n == normalize_upload(o.data, mime)
         IN  [raised |-> n.raised, info |-> n.info, called |-> TRUE,
              log |-> IF n.raised = "" THEN {} ELSE {UpstreamBody, ExcText}]

-----------------------------------------------------------------------------
(* Extraction of the generated text *)

\* [part.get('text', '') for part in parts]
part_texts(parts) == [i \in 1..Len(parts) |-> IF parts[i].hasText THEN parts[i].text ELSE << >>]

\* extract_audio as if it read the first part only, as line 365 does
extract_audio_first_part(response_data) ==
    IF ~response_data.hasCandidates \/ Len(response_data.candidates) = 0
    THEN JsonError(500, "Processing service returned no content, possibly due to safety filters or an issue.", {})
    ELSE LET cand == response_data.candidates[1]
             parts == IF cand.hasContent THEN cand.parts ELSE << >>
             generated_text == strip(part_texts(parts)[1])
         IN  IF Len(parts) = 0
             THEN JsonError(500, "Processing service returned empty content parts.", {})
             ELSE IF Len(generated_text) = 0
             THEN IF cand.finishReason # ABSENT /\ cand.finishReason # "STOP"
                  THEN JsonError(500, "Content generation stopped unexpectedly. Reason: ", {FinishReason})
                  ELSE JsonSuccess("processed_text", << >>)
             ELSE JsonSuccess("processed_text", generated_text)

\* lines 238-280 of process_audio_file, on a parsed JSON object
extract_audio(response_data) ==
    IF ~response_data.hasCandidates \/ Len(response_data.candidates) = 0
    THEN JsonError(500, "Processing service returned no content, possibly due to safety filters or an issue.", {})
    ELSE LET cand == response_data.candidates[1]
             parts == IF cand.hasContent THEN cand.parts ELSE << >>
             generated_text == strip(join_nl(part_texts(parts)))
         IN  IF Len(parts) = 0
             THEN JsonError(500, "Processing service returned empty content parts.", {})
             ELSE IF Len(generated_text) = 0
             THEN IF cand.finishReason # ABSENT /\ cand.finishReason # "STOP"
                  THEN JsonError(500, "Content generation stopped unexpectedly. Reason: ", {FinishReason})
                  ELSE JsonSuccess("processed_text", << >>)
             ELSE JsonSuccess("processed_text", generated_text)

\* extract_text as if a missing or empty candidates list gave an empty text
extract_text_empty_default(isDict, response_data) ==
    IF isDict /\ (~response_data.hasCandidates \/ Len(response_data.candidates) = 0)
    THEN JsonSuccess("generated_text", << >>)
    ELSE IF /\ isDict
            /\ response_data.candidates[1].hasContent
            /\ Len(response_data.candidates[1].parts) > 0
            /\ response_data.candidates[1].parts[1].hasText
    THEN JsonSuccess("generated_text", response_data.candidates[1].parts[1].text)
    ELSE JsonError(500, "Failed to parse response from processing service", {})

\* lines 364-372 of generate_content_text, on a parsed JSON value:
\* response_data['candidates'][0]['content']['parts'][0]['text'], where a
\* missing key, an empty list or a value that is no object raises
\* KeyError / IndexError / TypeError, all answered by line 372
extract_text(isDict, response_data) ==
    IF /\ isDict
       /\ response_data.hasCandidates
       /\ Len(response_data.candidates) > 0
       /\ response_data.candidates[1].hasContent
       /\ Len(response_data.candidates[1].parts) > 0
       /\ response_data.candidates[1].parts[1].hasText
    THEN JsonSuccess("generated_text", response_data.candidates[1].parts[1].text)
    ELSE JsonError(500, "Failed to parse response from processing service", {})

-----------------------------------------------------------------------------
(* Translating the outcome of the generation call *)

\* lines 302-304 and 389-391: the handler of unexpected exceptions.  Its first
\* statement is print(..., exc_info=True); print() takes no keyword exc_info,
\* so it raises TypeError inside the except block, the return that follows is
\* never reached and the exception leaves the view function.
handle_unexpected == Fault

GenericAudio == "Failed to communicate with the backend generative API for processing"
GenericText == "Failed to communicate with the backend generative API"

\* audio_generation_result as if the except clause for Timeout were missing:
\* a timeout is then answered like any other RequestException
audio_generation_result_no_timeout_clause(o, jsonErrIsRequestException) ==
    IF o.kind \in {"timeout", "connerr"}
    THEN JsonError(502, GenericAudio, {})
    ELSE IF raise_for_status(o.status)
    THEN JsonError(o.status, GenericAudio, {})
    ELSE IF ~o.isJson
    THEN IF jsonErrIsRequestException
         THEN JsonError(502, GenericAudio, {})
         ELSE handle_unexpected
    ELSE IF ~o.isDict
    THEN handle_unexpected
    ELSE extract_audio(o.data)

\* process_audio_file from the POST of line 228 to its return (lines 228-300).
\* jsonErrIsRequestException: whether the installed requests raises its own
\* JSONDecodeError (a RequestException, since 2.27) or a plain ValueError.
audio_generation_result(o, jsonErrIsRequestException) ==
    IF o.kind = "timeout"
    THEN JsonError(504, "Processing service request timed out during analysis", {})
    ELSE IF o.kind = "connerr"
    THEN JsonError(502, GenericAudio, {})
    ELSE IF raise_for_status(o.status)
    THEN JsonError(o.status, GenericAudio, {})
    ELSE IF ~o.isJson
    THEN IF jsonErrIsRequestException
         THEN JsonError(502, GenericAudio, {})
         ELSE handle_unexpected
    ELSE IF ~o.isDict
    THEN \* response_data.get raises AttributeError, which line 277 does not list
         handle_unexpected
    ELSE extract_audio(o.data)

\* generate_content_text from the POST of line 359 to its return (lines 357-391)
text_generation_result(o, jsonErrIsRequestException) ==
    IF o.kind = "timeout"
    THEN JsonError(504, "Processing service request timed out", {})
    ELSE IF o.kind = "connerr"
    THEN JsonError(502, GenericText, {})
    ELSE IF raise_for_status(o.status)
    THEN JsonError(o.status, GenericText, {})
    ELSE IF ~o.isJson
    THEN IF jsonErrIsRequestException
         THEN JsonError(502, GenericText, {})
         ELSE handle_unexpected
    ELSE extract_text(o.isDict, o.data)

\* what the print() calls of lines 278-298 / 370-387 write for that outcome
generation_log(o) ==
    IF o.kind = "timeout" THEN {}
    ELSE IF o.kind = "connerr" THEN {ExcText, Credential}
    ELSE IF raise_for_status(o.status) THEN {UpstreamBody}
    ELSE {}

-----------------------------------------------------------------------------
(* State *)

NoNorm == [stage |-> "off", fields |-> NoFields, mime |-> NONE,
           nested |-> [raised |-> "", info |-> NoInfo],
           flat |-> [raised |-> "", info |-> NoInfo]]

InitRequests ==
    /\ api_key \in ApiKeys
    /\ fs = [p \in Paths |-> "none"]
    /\ req = [r \in Reqs |-> NoRequest]
    /\ mime_type = [r \in Reqs |-> NONE]
    /\ info = [r \in Reqs |-> NoInfo]
    /\ stagingResp = [r \in Reqs |-> NoStaging]
    /\ genResp = [r \in Reqs |-> NoGen]
    /\ resp = [r \in Reqs |-> NoResp]
    /\ uploadCalls = [r \in Reqs |-> 0]
    /\ genCalls = [r \in Reqs |-> 0]
    /\ staged = [r \in Reqs |-> FALSE]
    /\ removeFailed = [r \in Reqs |-> FALSE]
    /\ log = [r \in Reqs |-> {}]
    /\ sentBytes = [r \in Reqs |-> "none"]

\* one client request is served
Init ==
    /\ InitRequests
    /\ pc = [r \in Reqs |-> IF r = "r1" THEN "idle" ELSE "off"]
    /\ norm = NoNorm

temp_path(r) == temp_path_of(req[r].filename)

\* the handler returns: resp goes to the client
Return(r, response) ==
    /\ resp' = [resp EXCEPT ![r] = response]
    /\ pc' = [pc EXCEPT ![r] = "done"]

\* ReturnViaFinally as if the try had no finally block
ReturnSkippingFinally(r, response) ==
    /\ resp' = [resp EXCEPT ![r] = response]
    /\ pc' = [pc EXCEPT ![r] = "done"]

\* a return inside the try block of process_audio_file: the finally block
\* (lines 306-314) runs before the response leaves
ReturnViaFinally(r, response) ==
    /\ resp' = [resp EXCEPT ![r] = response]
    /\ pc' = [pc EXCEPT ![r] = "finally"]

-----------------------------------------------------------------------------
(* Actions *)

\* with both request slots in use the upstream answers are drawn one per
\* kind: what the requests share is the temporary directory, not the answers
BothSlotsUsed == \A r \in Reqs : pc[r] # "off"

FullRef == [name |-> "files/a", uri |-> "https://u/a", mimeType |-> "audio/ogg"]

OnePartBody ==
    [hasCandidates |-> TRUE,
     candidates |-> << [hasContent |-> TRUE,
                        parts |-> << [hasText |-> TRUE, text |-> <<"a">>] >>,
                        finishReason |-> "STOP"] >>]

StagingAnswers ==
    IF BothSlotsUsed
    THEN {o \in StagingOutcomes :
            o.isJson => o.data \in {Nested(FullRef), Flat(NoFields)}}
    ELSE StagingOutcomes

GenAnswers ==
    IF BothSlotsUsed
    THEN {o \in GenOutcomes :
            /\ o.kind = "http" => o.status \in {200, 429}
            /\ o.isDict => o.data \in {NoBody, OnePartBody}}
    ELSE GenOutcomes

\* a client request reaches one of the two routes
Receive(r) ==
    /\ pc[r] = "idle"
    /\ \E q \in Requests :
        /\ req' = [req EXCEPT ![r] = q]
        /\ pc' = [pc EXCEPT ![r] = IF q.endpoint = "/process-audio"
                                   THEN "audio_prechecks" ELSE "text_prechecks"]
    /\ UNCHANGED <<api_key, fs, mime_type, info, stagingResp, genResp, resp,
                   uploadCalls, genCalls, staged, removeFailed, log, norm, sentBytes>>

\* audio_prechecks as if the check of the API key were missing
audio_prechecks_no_key_check(key, q) ==
    IF ~q.hasFile
    THEN JsonError(400, "Missing 'audio_file' in request files", {})
    ELSE IF q.filename = ""
    THEN JsonError(400, "No selected audio file", {})
    ELSE NoResp

\* process_audio_file, lines 136-150: the checks before the try block, in
\* the order of the code.  NoResp: every check passed.
audio_prechecks(key, q) ==
    IF key \in {NONE, ""}
    THEN JsonError(500, "API key not configured on the server", {})
    ELSE IF ~q.hasFile
    THEN JsonError(400, "Missing 'audio_file' in request files", {})
    ELSE IF q.filename = ""
    THEN JsonError(400, "No selected audio file", {})
    ELSE NoResp

\* process_audio_file up to the try block (lines 136-158)
process_audio_prechecks(r) ==
    /\ pc[r] = "audio_prechecks"
    /\ LET checked == audio_prechecks(api_key, req[r])
       IN  IF checked # NoResp
           THEN Return(r, checked)
           ELSE /\ pc' = [pc EXCEPT ![r] = "save"]
                /\ UNCHANGED resp
    /\ UNCHANGED <<api_key, fs, req, mime_type, info, stagingResp, genResp,
                   uploadCalls, genCalls, staged, removeFailed, log, norm, sentBytes>>

\* lines 160-175: audio_file.save(temp_path), then the MIME type is guessed.
\* The save can raise (OSError); that is an unexpected exception of the
\* outer try.
save_temp_file(r) ==
    /\ pc[r] = "save"
    /\ \E saved \in BOOLEAN :
        IF saved
        THEN /\ fs' = [fs EXCEPT ![temp_path(r)] = r]
             /\ staged' = [staged EXCEPT ![r] = TRUE]
             /\ mime_type' = [mime_type EXCEPT ![r] =
                    LET g == guess_type(req[r].filename)
                    IN  IF g = NONE \/ ~startswith_audio(g)
                        THEN "application/octet-stream" ELSE g]
             /\ pc' = [pc EXCEPT ![r] = "upload"]
             /\ UNCHANGED <<resp, log>>
        ELSE /\ ReturnViaFinally(r, handle_unexpected)
             /\ log' = [log EXCEPT ![r] = @ \cup {ExcText}]
             /\ UNCHANGED <<fs, staged, mime_type>>
    /\ UNCHANGED <<api_key, req, info, stagingResp, genResp, uploadCalls, genCalls,
                   removeFailed, norm, sentBytes>>

\* lines 178-189: the helper is called; whatever it raises is answered 502
\* with the exception's text appended to the message
upload_step(r) ==
    /\ pc[r] = "upload"
    /\ \E o \in StagingAnswers :
        LET u == upload_to_gemini_file_api(fs[temp_path(r)] # "none", o, mime_type[r])
        IN  /\ uploadCalls' = [uploadCalls EXCEPT ![r] = IF u.called THEN @ + 1 ELSE @]
            /\ stagingResp' = [stagingResp EXCEPT ![r] = IF u.called THEN o ELSE @]
            /\ sentBytes' = [sentBytes EXCEPT ![r] = IF u.called THEN fs[temp_path(r)] ELSE @]
            /\ log' = [log EXCEPT ![r] = @ \cup u.log]
            /\ IF u.raised # ""
               THEN /\ ReturnViaFinally(r,
                          JsonError(502, "Failed to upload audio to processing service: ",
                                    exception_text(u.raised)))
                    /\ UNCHANGED info
               ELSE IF u.info.uri = ABSENT
               THEN /\ ReturnViaFinally(r,
                          JsonError(502, "File uploaded but failed to get valid reference from processing service", {}))
                    /\ info' = [info EXCEPT ![r] = u.info]
               ELSE /\ info' = [info EXCEPT ![r] = u.info]
                    /\ pc' = [pc EXCEPT ![r] = "generate"]
                    /\ UNCHANGED resp
    /\ UNCHANGED <<api_key, fs, req, mime_type, genResp, genCalls, staged,
                   removeFailed, norm>>

\* lines 192-300: the payload is built (uploaded_file_info['mimeType'] raises
\* KeyError when the reference has none), the generation call is made and
\* its outcome translated
generate_audio(r) ==
    /\ pc[r] = "generate"
    /\ IF info[r].mimeType = ABSENT
       THEN /\ ReturnViaFinally(r, handle_unexpected)
            /\ log' = [log EXCEPT ![r] = @ \cup {ExcText}]
            /\ UNCHANGED <<genCalls, genResp>>
       ELSE \E o \in GenAnswers, jsonErrIsRequestException \in BOOLEAN :
            /\ genCalls' = [genCalls EXCEPT ![r] = @ + 1]
            /\ genResp' = [genResp EXCEPT ![r] = o]
            /\ log' = [log EXCEPT ![r] = @ \cup generation_log(o)]
            /\ ReturnViaFinally(r, audio_generation_result(o, jsonErrIsRequestException))
    /\ UNCHANGED <<api_key, fs, req, mime_type, info, stagingResp, uploadCalls,
                   staged, removeFailed, norm, sentBytes>>

\* line 308: os.path.exists(temp_path)
cleanup_exists(r) ==
    /\ pc[r] = "finally"
    /\ pc' = [pc EXCEPT ![r] = IF fs[temp_path(r)] # "none" THEN "remove" ELSE "done"]
    /\ UNCHANGED <<api_key, fs, req, mime_type, info, stagingResp, genResp, resp,
                   uploadCalls, genCalls, staged, removeFailed, log, norm, sentBytes>>

\* lines 309-314: os.remove(temp_path); if it raises (the file is gone, or
\* the system refuses the removal) the error is printed and dropped
cleanup_remove(r) ==
    /\ pc[r] = "remove"
    /\ \E removed \in BOOLEAN :
        IF fs[temp_path(r)] # "none" /\ removed
        THEN /\ fs' = [fs EXCEPT ![temp_path(r)] = "none"]
             /\ UNCHANGED <<removeFailed, log>>
        ELSE /\ removeFailed' = [removeFailed EXCEPT ![r] = TRUE]
             /\ log' = [log EXCEPT ![r] = @ \cup {ExcText}]
             /\ UNCHANGED fs
    /\ pc' = [pc EXCEPT ![r] = "done"]
    /\ UNCHANGED <<api_key, req, mime_type, info, stagingResp, genResp, resp,
                   uploadCalls, genCalls, staged, norm, sentBytes>>

\* generate_content_text, lines 335-352: the checks before the try block.
\* request.get_json() raises BadRequest on a body that does not parse;
\* data.get raises AttributeError when the JSON value is no object and
\* prompt_text[:50] raises TypeError on a number; none of these is inside a
\* try, so the exception leaves the view function.  NoResp: every check passed.
text_prechecks(key, q) ==
    IF key \in {NONE, ""}
    THEN JsonError(500, "API key not configured on the server", {})
    ELSE IF ~q.isJson
    THEN JsonError(400, "Request must be JSON", {})
    ELSE IF ~q.parses
    THEN BadRequest
    ELSE IF ~q.isObject
    THEN Fault
    ELSE IF q.prompt \in {ABSENT, ""}
    THEN JsonError(400, "Missing 'prompt' key in JSON request", {})
    ELSE IF q.prompt = "<number>"
    THEN Fault
    ELSE NoResp

\* generate_content_text up to the try block (lines 335-355)
generate_text_prechecks(r) ==
    /\ pc[r] = "text_prechecks"
    /\ LET checked == text_prechecks(api_key, req[r])
       IN  IF checked # NoResp
           THEN Return(r, checked)
           ELSE /\ pc' = [pc EXCEPT ![r] = "text_call"]
                /\ UNCHANGED resp
    /\ UNCHANGED <<api_key, fs, req, mime_type, info, stagingResp, genResp,
                   uploadCalls, genCalls, staged, removeFailed, log, norm, sentBytes>>

\* lines 357-391: the generation call and the translation of its outcome
generate_text_call(r) ==
    /\ pc[r] = "text_call"
    /\ \E o \in GenAnswers, jsonErrIsRequestException \in BOOLEAN :
        /\ genCalls' = [genCalls EXCEPT ![r] = @ + 1]
        /\ genResp' = [genResp EXCEPT ![r] = o]
        /\ log' = [log EXCEPT ![r] = @ \cup generation_log(o)]
        /\ Return(r, text_generation_result(o, jsonErrIsRequestException))
    /\ UNCHANGED <<api_key, fs, req, mime_type, info, stagingResp, uploadCalls,
                   staged, removeFailed, norm, sentBytes>>

Next ==
    \/ \E r \in Reqs : Receive(r)
    \/ \E r \in Reqs : process_audio_prechecks(r)
    \/ \E r \in Reqs : save_temp_file(r)
    \/ \E r \in Reqs : upload_step(r)
    \/ \E r \in Reqs : generate_audio(r)
    \/ \E r \in Reqs : cleanup_exists(r)
    \/ \E r \in Reqs : cleanup_remove(r)
    \/ \E r \in Reqs : generate_text_prechecks(r)
    \/ \E r \in Reqs : generate_text_call(r)

Spec == Init /\ [][Next]_vars

-----------------------------------------------------------------------------
(* Two requests served concurrently *)

\* both slots take a request; the handlers' steps interleave freely, as the
\* threads or workers of the server do
InitConc ==
    /\ InitRequests
    /\ pc = [r \in Reqs |-> "idle"]
    /\ norm = NoNorm

SpecConc == InitConc /\ [][Next]_vars

-----------------------------------------------------------------------------
(* The normalisation of the staging answer, applied to both shapes *)

\* the local MIME types process_audio_file can pass to the helper
LocalMimes == {"audio/x-wav", "application/octet-stream"}

\* a staging answer 200 with the JSON body d
Answer200(d) == [kind |-> "http", status |-> 200, isJson |-> TRUE, data |-> d]

\* the reference fields and the local MIME type are drawn; no request runs
InitUpload ==
    /\ InitRequests
    /\ pc = [r \in Reqs |-> "off"]
    /\ \E f \in RefFields, m \in LocalMimes :
        norm = [NoNorm EXCEPT !.stage = "input", !.fields = f, !.mime = m]

\* the helper on the answer that nests the fields under 'file'
upload_nested ==
    /\ norm.stage \in {"input", "flat"}
    /\ LET u == upload_to_gemini_file_api(TRUE, Answer200(Nested(norm.fields)), norm.mime)
       IN  norm' = [norm EXCEPT !.nested = [raised |-> u.raised, info |-> u.info],
                                !.stage = IF norm.stage = "input" THEN "nested" ELSE "both"]
    /\ UNCHANGED <<api_key, fs, pc, req, mime_type, info, stagingResp, genResp, resp,
                   uploadCalls, genCalls, staged, removeFailed, log, sentBytes>>

\* the helper on the answer that holds the same fields at the root
upload_flat ==
    /\ norm.stage \in {"input", "nested"}
    /\ LET u == upload_to_gemini_file_api(TRUE, Answer200(Flat(norm.fields)), norm.mime)
       IN  norm' = [norm EXCEPT !.flat = [raised |-> u.raised, info |-> u.info],
                                !.stage = IF norm.stage = "input" THEN "flat" ELSE "both"]
    /\ UNCHANGED <<api_key, fs, pc, req, mime_type, info, stagingResp, genResp, resp,
                   uploadCalls, genCalls, staged, removeFailed, log, sentBytes>>

NextUpload == upload_nested \/ upload_flat

SpecUpload == InitUpload /\ [][NextUpload]_vars

-----------------------------------------------------------------------------
(* Properties *)

Done(r) == pc[r] = "done"

Is2xx(status) == status >= 200 /\ status < 300

IsJsonError(response) == response.kind = "json" /\ response.field = "error"

KeyMissing == api_key \in {NONE, ""}

Internal == {ExcText, Credential, UpstreamBody}

\* the generation call of r was answered 2xx with a JSON object
GenObject2xx(r) ==
    /\ genResp[r].kind = "http"
    /\ Is2xx(genResp[r].status)
    /\ genResp[r].isJson
    /\ genResp[r].isDict

\* the staging call of r was answered 2xx with a parsed JSON body
StagingParsed2xx(r) ==
    /\ stagingResp[r].kind = "http"
    /\ Is2xx(stagingResp[r].status)
    /\ stagingResp[r].isJson

\* C1: while the credential is not configured, whatever the request body, no
\* staging call and no generation call is made, no temporary file is created,
\* and the response of either endpoint is the JSON error with status 500.
C1_NoKeyNoOutboundCall ==
    KeyMissing =>
        /\ \A p \in Paths : fs[p] = "none"
        /\ \A r \in Reqs :
            /\ uploadCalls[r] = 0
            /\ genCalls[r] = 0
            /\ ~staged[r]
            /\ Done(r) => IsJsonError(resp[r]) /\ resp[r].status = 500

\* a well-formed upload was answered while the credential was missing
C1_Witness ==
    /\ KeyMissing
    /\ \E r \in Reqs :
        /\ Done(r)
        /\ req[r].endpoint = "/process-audio"
        /\ req[r].hasFile
        /\ req[r].filename # ""
        /\ resp[r].status = 500

C3_AlwaysJsonResponse ==
    \A r \in Reqs : Done(r) => resp[r].kind = "json"

\* C4: the error string of an error response embeds no internal diagnostic
\* detail: no text of a caught exception, no credential, no raw upstream body.
C4_NoInternalDetailInError ==
    \A r \in Reqs : Done(r) /\ IsJsonError(resp[r]) => resp[r].detail \cap Internal = {}

\* C5 (as claimed): whenever the staging call or the generation call of a
\* request timed out, the client receives 504.
C5_TimeoutIs504 ==
    \A r \in Reqs :
        Done(r) /\ (stagingResp[r].kind = "timeout" \/ genResp[r].kind = "timeout")
            => resp[r].status = 504

\* C5 (amended): whenever the generation call of /process-audio or /generate
\* timed out the client receives the JSON error 504, and 502 when that call
\* failed in transport otherwise; a timeout of the staging call is answered
\* 502 like every other upload failure, and no generation call follows it.
C5_GenerationTimeoutIs504 ==
    \A r \in Reqs :
        Done(r) =>
            /\ genResp[r].kind = "timeout" => IsJsonError(resp[r]) /\ resp[r].status = 504
            /\ genResp[r].kind = "connerr" => IsJsonError(resp[r]) /\ resp[r].status = 502
            /\ stagingResp[r].kind = "timeout" =>
                   IsJsonError(resp[r]) /\ resp[r].status = 502 /\ genCalls[r] = 0

\* the generation call of a /process-audio request timed out
C5_Witness ==
    \E r \in Reqs :
        /\ Done(r)
        /\ req[r].endpoint = "/process-audio"
        /\ genResp[r].kind = "timeout"
        /\ resp[r].status = 504

\* the fixed messages of lines 300 and 388
GenericMessage(r) ==
    IF req[r].endpoint = "/process-audio" THEN GenericAudio ELSE GenericText

\* the response of r passes the upstream status on with the fixed message,
\* the upstream detail being in the log only
PassedThrough(r) ==
    /\ IsJsonError(resp[r])
    /\ resp[r].status = genResp[r].status
    /\ resp[r].msg = GenericMessage(r)
    /\ resp[r].detail = {}
    /\ UpstreamBody \in log[r]

\* C6 (as claimed): when the generation endpoint answers with a status that is
\* not 2xx, the response carries that status and the fixed generic message,
\* whatever the upstream body, and the upstream detail is logged only.
C6_Non2xxPassedThrough ==
    \A r \in Reqs :
        Done(r) /\ genResp[r].kind = "http" /\ ~Is2xx(genResp[r].status)
            => PassedThrough(r)

\* C6 (amended): the same for a status that is 4xx or 5xx.
C6_ErrorStatusPassedThrough ==
    \A r \in Reqs :
        Done(r) /\ genResp[r].kind = "http"
                /\ genResp[r].status >= 400 /\ genResp[r].status < 600
            => PassedThrough(r)

\* the generation endpoint answered 429 with a body that is not JSON
C6_Witness ==
    \E r \in Reqs :
        /\ Done(r)
        /\ genResp[r].kind = "http"
        /\ genResp[r].status = 429
        /\ ~genResp[r].isJson
        /\ resp[r].status = 429

\* a parsed staging body in neither shape: no 'file' object holding name and
\* uri, and no name at the root that begins with files/
NeitherShape(d) ==
    /\ ~(Len(d.file) = 1 /\ d.file[1].name # ABSENT /\ d.file[1].uri # ABSENT)
    /\ d.root.name \notin {"files/a"}

\* C7 (as claimed): when the staging service answers 2xx with a body in
\* neither recognized shape, no generation call is made and the client
\* receives 500.
C7_UnrecognizedShapeIs500 ==
    \A r \in Reqs :
        Done(r) /\ StagingParsed2xx(r) /\ NeitherShape(stagingResp[r].data)
            => genCalls[r] = 0 /\ IsJsonError(resp[r]) /\ resp[r].status = 500

\* C7 (amended): ... no generation call is made and the client receives 502,
\* the status of every upload failure.
C7_UnrecognizedShapeIs502 ==
    \A r \in Reqs :
        Done(r) /\ StagingParsed2xx(r) /\ NeitherShape(stagingResp[r].data)
            => genCalls[r] = 0 /\ IsJsonError(resp[r]) /\ resp[r].status = 502

\* the staging service answered 200 with a root-level name that is no
\* files/ reference, and the request has ended
C7_Witness ==
    \E r \in Reqs :
        /\ Done(r)
        /\ StagingParsed2xx(r)
        /\ NeitherShape(stagingResp[r].data)
        /\ stagingResp[r].data.root.name = "a"
        /\ resp[r].status = 502

\* C8: for a 2xx generation answer whose candidates list is missing or empty,
\* both endpoints return an {error} body with a status that is not 2xx.
C8_ZeroCandidatesIsError ==
    \A r \in Reqs :
        Done(r) /\ GenObject2xx(r)
                /\ (~genResp[r].data.hasCandidates \/ Len(genResp[r].data.candidates) = 0)
            => IsJsonError(resp[r]) /\ ~Is2xx(resp[r].status)

\* /generate received a 200 whose candidates list is empty
C8_Witness ==
    \E r \in Reqs :
        /\ Done(r)
        /\ req[r].endpoint = "/generate"
        /\ GenObject2xx(r)
        /\ genResp[r].data.hasCandidates
        /\ Len(genResp[r].data.candidates) = 0
        /\ resp[r].status = 500

\* every part of the candidate has an empty or a missing text (true of a
\* candidate without parts)
AllPartsEmpty(c) ==
    \A i \in 1..Len(c.parts) : ~c.parts[i].hasText \/ c.parts[i].text = << >>

\* /process-audio received a 2xx answer whose first candidate stopped
\* normally and whose parts all have empty or missing text
NormalStopEmptyText(r) ==
    /\ req[r].endpoint = "/process-audio"
    /\ GenObject2xx(r)
    /\ genResp[r].data.hasCandidates
    /\ Len(genResp[r].data.candidates) >= 1
    /\ genResp[r].data.candidates[1].finishReason = "STOP"
    /\ AllPartsEmpty(genResp[r].data.candidates[1])

\* C9 (as claimed): a normal stop with empty text, the candidate without parts
\* included, is answered with the success body {processed_text: ""}.
C9_NormalStopEmptyIsSuccess ==
    \A r \in Reqs :
        Done(r) /\ NormalStopEmptyText(r)
            => resp[r] = JsonSuccess("processed_text", << >>)

\* C9 (amended): a normal stop whose candidate has at least one part, every
\* part with empty or missing text, is answered with {processed_text: ""}.
C9_NormalStopEmptyPartsIsSuccess ==
    \A r \in Reqs :
        Done(r) /\ NormalStopEmptyText(r)
                /\ Len(genResp[r].data.candidates[1].parts) >= 1
            => resp[r] = JsonSuccess("processed_text", << >>)

\* two parts, one empty and one without text, after a normal stop
C9_Witness ==
    \E r \in Reqs :
        /\ Done(r)
        /\ NormalStopEmptyText(r)
        /\ Len(genResp[r].data.candidates[1].parts) = 2
        /\ genResp[r].data.candidates[1].parts[1].hasText
        /\ ~genResp[r].data.candidates[1].parts[2].hasText
        /\ resp[r].status = 200

\* C10: a staging answer with the reference fields nested under 'file' and
\* the answer with the same fields at the root are both accepted or both
\* rejected, and when accepted give the same reference (name, uri, mimeType).
C10_ShapesNormalizeAlike ==
    norm.stage = "both" => norm.nested = norm.flat

-----------------------------------------------------------------------------
(* The text returned *)

\* the texts of the parts, a missing text counting as empty, put one after
\* the other in order with sep between consecutive parts
Concatenation(parts, sep) ==
    LET cat[i \in 0..Len(parts)] ==
            IF i = 0 THEN << >>
            ELSE cat[i - 1]
                 \o (IF i > 1 THEN sep ELSE << >>)
                 \o (IF parts[i].hasText THEN parts[i].text ELSE << >>)
    IN  cat[Len(parts)]

\* s without its leading and trailing whitespace
Trimmed(s) ==
    LET solid == {i \in 1..Len(s) : s[i] \notin WS}
    IN  IF solid = {} THEN << >>
        ELSE SubSeq(s, CHOOSE i \in solid : \A j \in solid : i <= j,
                       CHOOSE i \in solid : \A j \in solid : i >= j)

\* r received a 2xx generation answer with at least one candidate
HasCandidate(r) ==
    /\ GenObject2xx(r)
    /\ genResp[r].data.hasCandidates
    /\ Len(genResp[r].data.candidates) >= 1

FirstParts(r) == genResp[r].data.candidates[1].parts

IsSuccess(response) == response.kind = "json" /\ response.field # "error"

\* C11 (as claimed): the text either endpoint returns for a 2xx answer with a
\* candidate is the texts of all parts of the first candidate, in order, with
\* nothing between them, trimmed.
C11_TextIsTrimmedConcatenation ==
    \A r \in Reqs :
        Done(r) /\ HasCandidate(r) /\ IsSuccess(resp[r])
            => resp[r].text = Trimmed(Concatenation(FirstParts(r), << >>))

\* C11 (amended): /process-audio returns the texts of all parts of the first
\* candidate, in order, with a line break between consecutive parts, trimmed
\* (an error instead when there is no part, or when that text is empty and the
\* stop reason is not the normal one); /generate returns the text of the
\* first part alone and untrimmed (an error when there is no first part or it
\* has no text); a single part whose text is not empty and has no surrounding
\* whitespace is returned exactly by both.
C11_TextAsExtracted ==
    \A r \in Reqs :
        Done(r) /\ HasCandidate(r) =>
            LET ps == FirstParts(r)
                joined == Trimmed(Concatenation(ps, <<"\n">>))
                stop == genResp[r].data.candidates[1].finishReason \in {ABSENT, "STOP"}
            IN  /\ req[r].endpoint = "/process-audio" =>
                    IF Len(ps) >= 1 /\ (joined # << >> \/ stop)
                    THEN resp[r] = JsonSuccess("processed_text", joined)
                    ELSE IsJsonError(resp[r]) /\ resp[r].status = 500
                /\ req[r].endpoint = "/generate" =>
                    IF Len(ps) >= 1 /\ ps[1].hasText
                    THEN resp[r] = JsonSuccess("generated_text", ps[1].text)
                    ELSE IsJsonError(resp[r]) /\ resp[r].status = 500
                /\ (Len(ps) = 1 /\ ps[1].hasText /\ ps[1].text # << >>
                       /\ Trimmed(ps[1].text) = ps[1].text)
                    => IsSuccess(resp[r]) /\ resp[r].text = ps[1].text

\* /process-audio received the parts "a" and "b" and returned a, line break, b
C11_Witness ==
    \E r \in Reqs :
        /\ Done(r)
        /\ HasCandidate(r)
        /\ req[r].endpoint = "/process-audio"
        /\ Len(FirstParts(r)) = 2
        /\ FirstParts(r)[1].text = <<"a">>
        /\ FirstParts(r)[2].text = <<"b">>
        /\ resp[r].text = <<"a", "\n", "b">>

-----------------------------------------------------------------------------
(* The order of the outbound calls *)

Present(v) == v \notin {ABSENT, NONE}

\* C12: a request makes at most one staging call and at most one generation
\* call; /process-audio makes its generation call only after its one staging
\* call returned a reference whose name and uri are both present (not null),
\* so after a failed staging call no call follows; /generate makes no staging
\* call and at most one generation call.
C12_StageThenGenerateOnce ==
    \A r \in Reqs :
        /\ uploadCalls[r] <= 1
        /\ genCalls[r] <= 1
        /\ req[r].endpoint = "/generate" => uploadCalls[r] = 0
        /\ (req[r].endpoint = "/process-audio" /\ genCalls[r] >= 1) =>
               /\ uploadCalls[r] = 1
               /\ Present(info[r].name)
               /\ Present(info[r].uri)

-----------------------------------------------------------------------------
(* Requests served concurrently *)

\* C13: of two /process-audio requests served concurrently, neither reads,
\* overwrites or removes the temporary file the other staged: the bytes a
\* request sends to the staging service are the bytes it received, and while
\* a request has staged its file and not yet uploaded it the file is there
\* and holds its bytes.
C13_TempFilesIsolated ==
    \A r \in Reqs :
        /\ sentBytes[r] \in {"none", r}
        /\ pc[r] = "upload" => fs[temp_path(r)] = r

=============================================================================
